---- MODULE Spec2Model ----
(***************************************************************************)
(* Release-Tracker backend: the IGDB client core (token cache and          *)
(* minimum-interval rate limiter, backend/igdb_client.py) and the cache    *)
(* policy of the routes (backend/server.py over backend/database.py).      *)
(*                                                                         *)
(* Time is the wall clock in whole seconds (time.time() and datetime.now() *)
(* read the same clock).  Coroutines run on one event loop: a step of the  *)
(* model is the code a task runs between two suspension points (an await   *)
(* that really suspends: asyncio.sleep, an HTTP round trip, a database    *)
(* round trip).                                                            *)
(***************************************************************************)
EXTENDS Integers, Sequences, FiniteSets, TLC

\* ------------------------------------------------------------- bounds
MaxTicks == 2          \* seconds of clock explored
MaxOps == 3            \* client operations started in one behaviour
BootTime == 1000       \* clock reading when the client is constructed

MaxBatch == 2          \* entities in one upstream answer

\* ---------------------------------------------------- program constants
None == -1                    \* Optional[...] = None
RefreshMargin == 300          \* "Refresh 5 minutes early"
DefaultExpiresIn == 3600      \* token_data.get("expires_in", 3600)
request_interval == 2         \* 1.0 / requests_per_second, requests_per_second = 0.5

\* The tasks that share the one client of the process.
Callers == {"c1", "c2"}
\* The task of the sequential specification.
SeqCaller == "c1"
Nobody == "nobody"

\* Domain operations of the client, and "token": a direct call of
\* _get_access_token (server.py lifespan and health_check).
DomainOps == {"get_upcoming_games", "search_games", "get_platforms"}
OpKinds == DomainOps \cup {"token"}

\* What the identity provider may put in expires_in (None: the key is absent).
ExpiresInChoices == {100, 301, 3600, None}
\* How a credential exchange may end: a 2xx body with access_token, a 2xx
\* body without it, a non-2xx status, a transport failure.
TokenOutcomes ==
    {"ok", "no_access_token", "bad_expires_in", "status_error",
     "transport_error"}
\* How an entity POST may end.
PostOutcomes == {"200", "429", "500", "transport_error"}

\* The request handlers of the route layer that run at the same time.
Handlers == {"h1", "h2"}
Routes == {"upcoming", "search", "platforms"}

VARIABLES
    now,                \* the wall clock, in seconds
    started,            \* operations started so far
    issued,             \* tokens the identity provider has issued so far
    access_token,       \* IGDBClient.access_token (a token's serial number)
    token_expires_at,   \* IGDBClient.token_expires_at
    last_request_time,  \* IGDBClient.last_request_time
    task,               \* per task: the frame of the operation it is running
    slot_owner,         \* the task that set last_request_time last
    last_post_time,     \* when the last entity POST was dispatched
    db_games,           \* database.py: the games collection, by _id
    db_platforms,       \* database.py: the platforms collection, by _id
    handler             \* per request handler: the frame of its request

clientVars == <<now, started, issued, access_token, token_expires_at,
                last_request_time, task, slot_owner, last_post_time>>

routeVars == <<db_games, db_platforms, handler>>

vars == <<clientVars, routeVars>>

\* ------------------------------------------------------ pure helpers

\* Faulty variants of the hot-path test: the refresh margin applied a second time;
\* the expiry not looked at.
TokenIsFresh_MarginTwice(tok, exp, t) ==
    tok # None /\ exp # None /\ t + RefreshMargin < exp

TokenIsFresh_IgnoresExpiry(tok, exp, t) == tok # None

\* igdb_client.py:42, the hot-path test of _get_access_token.
TokenIsFresh(tok, exp, t) == tok # None /\ exp # None /\ t < exp

\* The JSON object of a successful exchange.
TokenBody(tok, e) ==
    IF e = None THEN [access_token |-> tok]
    ELSE [access_token |-> tok, expires_in |-> e]

\* igdb_client.py:61
ExpiresIn(token_data) ==
    IF "expires_in" \in DOMAIN token_data THEN token_data["expires_in"]
    ELSE DefaultExpiresIn

\* Faulty variant of the expiry: no early refresh.
ExpiresAt_NoMargin(t, expires_in) == t + expires_in

\* igdb_client.py:62
ExpiresAt(t, expires_in) == t + (expires_in - RefreshMargin)

\* Faulty variant of the test: every call sleeps.
MustSleep_Always(time_since_last_request) == TRUE

\* igdb_client.py:76
MustSleep(time_since_last_request) == time_since_last_request < request_interval

\* Faulty variant of the sleep: a second short.
SleepTime_Short(time_since_last_request) ==
    request_interval - time_since_last_request - 1

\* igdb_client.py:77
SleepTime(time_since_last_request) == request_interval - time_since_last_request

\* Faulty variant: every operation posts to the games endpoint.
Endpoint_AlwaysGames(op) == "games"

\* igdb_client.py:142, 155, 166: the endpoint a domain operation posts to.
Endpoint(op) == IF op = "get_platforms" THEN "platforms" ELSE "games"

\* No exchange has answered in this operation.
NoData == [access_token |-> None]

\* The frame of a task that runs no operation.
Idle == [pc |-> "idle", op |-> "none", wake_at |-> None, bearer |-> None,
         token_calls |-> 0, post_calls |-> 0, stale_at_invoke |-> FALSE,
         token_data |-> NoData, response |-> "none", raised |-> "none",
         value |-> None, message |-> {}, logged |-> {},
         steps |-> <<>>, endpoint |-> "none"]

\* ------------------------------------------------ route layer: data

Day == 86400                  \* timedelta(days=1), in seconds

\* JSON objects the games endpoint may answer with.  first_release_date is a
\* unix timestamp; the last object has no name and does not parse.
GameObjects ==
    { [id |-> 1, name |-> "Alpha", first_release_date |-> BootTime + 3 * Day,
       platforms |-> {6}],
      [id |-> 1, name |-> "Beta", first_release_date |-> BootTime + 3 * Day,
       platforms |-> {6}],
      [id |-> 2, name |-> "Alpha", first_release_date |-> BootTime + 30 * Day,
       platforms |-> {48}],
      [id |-> 3, first_release_date |-> BootTime + 3 * Day] }

\* JSON objects the platforms endpoint may answer with.
PlatformObjects ==
    { [id |-> 6, name |-> "Alpha"], [id |-> 6, name |-> "Beta"], [id |-> 48] }

\* Answers of an endpoint: up to MaxBatch objects with different ids.
Batches(objects) ==
    UNION { { q \in [1..n -> objects] :
                \A i, j \in 1..n : i # j => q[i]["id"] # q[j]["id"] } :
            n \in 0..MaxBatch }

GameBatches == Batches(GameObjects)
PlatformBatches == Batches(PlatformObjects)

\* What the query parameters of a request may be.
DaysAheadChoices == {7}
LimitChoices == {50}
\* platform_filter: None (written <<>>, falsy like an empty list) or a list.
PlatformFilters == {<<>>, <<6>>, <<6, 48>>}

\* Alphabetical order of the names in use.
Names == <<"Alpha", "Beta">>
NameRank(name) == CHOOSE i \in 1..Len(Names) : Names[i] = name

\* A collection with no document.
EmptyCollection == [i \in {} |-> None]

\* models.py:33-47: Game(**game_data) needs id and name; the other fields
\* have defaults (summary, rating, cover, release_dates are left out of the
\* model).
CanParseGame(o) == "id" \in DOMAIN o /\ "name" \in DOMAIN o

Game(o) ==
    [id |-> o["id"], name |-> o["name"],
     first_release_date |->
        IF "first_release_date" \in DOMAIN o THEN o["first_release_date"]
        ELSE None,
     platforms |-> IF "platforms" \in DOMAIN o THEN o["platforms"] ELSE {}]

\* models.py:6-9: Platform(**platform_data) needs id and name.
CanParsePlatform(o) == "id" \in DOMAIN o /\ "name" \in DOMAIN o

Platform(o) == [id |-> o["id"], name |-> o["name"]]

\* Faulty variant of the loop: break in place of continue.
RECURSIVE ParseGames_StopsAtFailure(_)
ParseGames_StopsAtFailure(games_data) ==
    IF games_data = <<>> \/ ~CanParseGame(Head(games_data)) THEN <<>>
    ELSE <<Game(Head(games_data))>>
            \o ParseGames_StopsAtFailure(Tail(games_data))

\* server.py:122-128, 151-156, 196-202: the objects that parse, in order.
ParseGames(games_data) ==
    LET ok == SelectSeq(games_data, CanParseGame)
    IN  [i \in 1..Len(ok) |-> Game(ok[i])]

\* server.py:230-236, 251-256
ParsePlatforms(platforms_data) ==
    LET ok == SelectSeq(platforms_data, CanParsePlatform)
    IN  [i \in 1..Len(ok) |-> Platform(ok[i])]

\* Faulty variant of the upsert: an existing document is kept.
replace_one_InsertOnly(coll, id, doc) ==
    IF id \in DOMAIN coll THEN coll
    ELSE [i \in DOMAIN coll \cup {id} |-> IF i = id THEN doc ELSE coll[i]]

\* database.py:78-82, 142-146: replace_one({"_id": id}, doc, upsert=True)
replace_one(coll, id, doc) ==
    [i \in DOMAIN coll \cup {id} |-> IF i = id THEN doc ELSE coll[i]]

\* database.py:66-76
GameDoc(game, t) ==
    [name |-> game.name, first_release_date |-> game.first_release_date,
     platforms |-> game.platforms, last_updated |-> t]

\* database.py:135-140
PlatformDoc(platform, t) == [name |-> platform.name, last_updated |-> t]

\* database.py:1-6: the names the module has from datetime.
DatabaseImports == {"datetime"}

\* A sequence of the ids in S, by ascending key (ties by id).
RECURSIVE OrderBy(_, _)
OrderBy(S, key) ==
    IF S = {} THEN <<>>
    ELSE LET first == CHOOSE i \in S :
                 \A j \in S : key[i] < key[j] \/ (key[i] = key[j] /\ i <= j)
         IN  <<first>> \o OrderBy(S \ {first}, key)

Take(seq, n) == SubSeq(seq, 1, IF Len(seq) < n THEN Len(seq) ELSE n)

\* database.py:102-110: the filter of the query, on one document.
MatchesFilter(doc, t, days_ahead, platform_ids) ==
    /\ doc.first_release_date # None
    /\ doc.first_release_date >= t
    /\ doc.first_release_date <= t + days_ahead * Day
    /\ platform_ids # <<>>
          => doc.platforms \cap {platform_ids[i] : i \in 1..Len(platform_ids)}
                # {}

\* database.py:92-126.  Building the filter evaluates timedelta
\* (database.py:105), a name the module does not import: NameError, caught
\* at 124-126, and the result is [].
get_upcoming_games_from_db(coll, t, days_ahead, platform_ids, limit) ==
    IF "timedelta" \notin DatabaseImports THEN <<>>
    ELSE LET found == { i \in DOMAIN coll :
                          MatchesFilter(coll[i], t, days_ahead, platform_ids) }
             ids == Take(OrderBy(found,
                        [i \in found |-> coll[i].first_release_date]), limit)
         IN  [k \in 1..Len(ids) |->
                 [id |-> ids[k], name |-> coll[ids[k]].name,
                  first_release_date |-> coll[ids[k]].first_release_date,
                  platforms |-> coll[ids[k]].platforms]]

\* database.py:156-173
get_platforms_from_db(coll) ==
    LET ids == OrderBy(DOMAIN coll, [i \in DOMAIN coll |-> NameRank(coll[i].name)])
    IN  [k \in 1..Len(ids) |-> [id |-> ids[k], name |-> coll[ids[k]].name]]

\* server.py:163-166: sorted(games, key=(first_release_date or max, name)),
\* a stable sort.
SortKeyLE(a, b) ==
    LET da == a.first_release_date
        db == b.first_release_date
    IN  IF da = db THEN NameRank(a.name) <= NameRank(b.name)
        ELSE IF da = None THEN FALSE
        ELSE IF db = None THEN TRUE
        ELSE da < db

RECURSIVE InsertSorted(_, _)
InsertSorted(g, s) ==
    IF s = <<>> THEN <<g>>
    ELSE IF SortKeyLE(s[Len(s)], g) THEN Append(s, g)
    ELSE Append(InsertSorted(g, SubSeq(s, 1, Len(s) - 1)), s[Len(s)])

RECURSIVE sorted_games(_)
sorted_games(games) ==
    IF games = <<>> THEN <<>>
    ELSE InsertSorted(games[Len(games)],
                      sorted_games(SubSeq(games, 1, Len(games) - 1)))

\* ------------------------------------------------ the query strings
\* A string is a sequence of tokens: words and numbers.
Word(w) == [w |-> w, n |-> 0]
Num(n) == [w |-> "#", n |-> n]

\* sep.join(parts)
RECURSIVE Join(_, _)
Join(parts, sep) ==
    IF parts = <<>> THEN <<>>
    ELSE IF Len(parts) = 1 THEN parts[1]
    ELSE parts[1] \o sep \o Join(Tail(parts), sep)

\* igdb_client.py:119-137: the query of get_upcoming_games at time t.  The
\* platform restriction is one more element of query_parts, and the
\* elements are joined with "; ".
UpcomingQuery(t, days_ahead, limit, platform_ids) ==
    LET start_timestamp == t
        end_timestamp == t + days_ahead * Day
        platform_filter ==
            Join([i \in 1..Len(platform_ids) |-> <<Num(platform_ids[i])>>],
                 <<Word("|")>>)
        head ==
            << <<Word("fields"), Word("name,summary,...")>>,
               <<Word("where"),
                 Word("release_dates.date"), Word(">="), Num(start_timestamp),
                 Word("&"),
                 Word("release_dates.date"), Word("<"), Num(end_timestamp)>> >>
        filtered ==
            IF platform_ids # <<>>
            THEN Append(head,
                        <<Word("&"), Word("release_dates.platform"), Word("="),
                          Word("(")>> \o platform_filter \o <<Word(")")>>)
            ELSE head
        query_parts ==
            filtered \o << <<Word("sort"), Word("release_dates.date"),
                             Word("asc")>>,
                           <<Word("limit"), Num(limit)>> >>
    IN  Join(query_parts, <<Word(";")>>) \o <<Word(";")>>

\* igdb_client.py:152
SearchQuery(limit) ==
    <<Word("search"), Word("term"), Word(";"),
      Word("fields"), Word("name,summary,..."), Word(";"),
      Word("limit"), Num(limit), Word(";")>>

\* igdb_client.py:163
PlatformsQuery ==
    <<Word("fields"), Word("name,abbreviation"), Word(";"),
      Word("where"), Word("category"), Word("="), Word("(1,5,6)"), Word(";"),
      Word("sort"), Word("name"), Word("asc"), Word(";"),
      Word("limit"), Num(500), Word(";")>>

\* The statements of a query: what stands between its ";".
RECURSIVE Statements(_)
Statements(query) ==
    IF query = <<>> THEN <<>>
    ELSE LET stop == CHOOSE i \in 1..Len(query) + 1 :
                        /\ i = Len(query) + 1 \/ query[i] = Word(";")
                        /\ \A j \in 1..(i - 1) : query[j] # Word(";")
         IN  <<SubSeq(query, 1, stop - 1)>>
                \o Statements(SubSeq(query, stop + 1, Len(query)))

\* Faulty variant of the classification: 429 left to raise_for_status.
PostRaises_429AsStatusError(outcome) ==
    CASE outcome = "200" -> "none"
      [] outcome \in {"429", "500"} -> "HTTPStatusError"
      [] OTHER -> "TransportError"

\* igdb_client.py:100-108: what _make_request raises for an answer.
PostRaises(outcome) ==
    CASE outcome = "200" -> "none"
      [] outcome = "429" -> "IGDBRateLimitError"
      [] outcome = "500" -> "HTTPStatusError"
      [] OTHER -> "TransportError"

\* Faulty variant: the error of raise_for_status leaves the exchange as it is.
TokenRaises_StatusErrorPropagates(outcome) ==
    CASE outcome = "ok" -> "none"
      [] outcome = "no_access_token" -> "KeyError"
      [] outcome = "bad_expires_in" -> "TypeError"
      [] outcome = "status_error" -> "HTTPStatusError"
      [] OTHER -> "IGDBAuthError"

\* igdb_client.py:57-69: what _get_access_token raises for an answer of the
\* token endpoint.  A 2xx body without "access_token" raises KeyError at
\* line 60, and one whose "expires_in" is no number raises TypeError at
\* line 62 (expires_in - 300); neither is an httpx.HTTPError.
TokenRaises(outcome) ==
    CASE outcome = "ok" -> "none"
      [] outcome = "no_access_token" -> "KeyError"
      [] outcome = "bad_expires_in" -> "TypeError"
      [] OTHER -> "IGDBAuthError"

\* What a domain operation of the client may raise ("none": it returns).
ClientRaises ==
    {PostRaises(o) : o \in PostOutcomes}
        \cup {TokenRaises(o) : o \in TokenOutcomes}

\* server.py:176-182, 212-214, 264-266: the status an error is answered with.
ErrorStatus(route, raised) ==
    IF route = "upcoming" /\ raised = "IGDBRateLimitError" THEN 429
    ELSE IF route = "upcoming" /\ raised = "IGDBAuthError" THEN 503
    ELSE 500

\* The frame of a handler that serves no request.
NoRequest ==
    [pc |-> "idle", route |-> "none", force_refresh |-> FALSE,
     days_ahead |-> 0, limit |-> 0, platform_filter |-> <<>>,
     query |-> <<>>, received |-> 0, items |-> <<>>, saved |-> 0,
     upstream_calls |-> 0,
     raised |-> "none",
     status |-> 0, body |-> <<>>]

\* ------------------------------------------------------------- Init
Init ==
    /\ now = BootTime
    /\ started = 0
    /\ issued = 0
    /\ access_token = None
    /\ token_expires_at = None
    /\ last_request_time = 0
    /\ task = [c \in Callers |-> Idle]
    /\ slot_owner = Nobody
    /\ last_post_time = None
    /\ db_games = EmptyCollection
    /\ db_platforms = EmptyCollection
    /\ handler = [h \in Handlers |-> NoRequest]

\* ------------------------------------------- the client, step by step

\* ------------------------------------------- error messages and log records
\* A text is the set of the things it tells.

\* igdb_client.py:48-56: the credentials are passed as params, so they are
\* the query string of the URL of the token request.
TokenRequestUrl == {"token_url", "client_id", "client_secret", "grant_type"}

\* igdb_client.py:95: the URL of an entity request.
EntityRequestUrl == {"base_url", "endpoint"}

\* str(e) of the httpx.HTTPError an answer raises.  The error of
\* raise_for_status (igdb_client.py:57, 103) tells the status and the URL
\* of the request; a transport error tells its reason.
HTTPErrorText(outcome, url) ==
    CASE outcome \in {"status_error", "500"} -> {"status"} \cup url
      [] outcome = "transport_error" -> {"reason"}
      [] OTHER -> {}

\* The message of the error an operation raises: igdb_client.py:69
\* f"Authentication failed: {e}", 101 "Rate limit exceeded", 108 (the httpx
\* error itself), 60 (KeyError of the missing key).
ErrorMessage(outcome, err) ==
    CASE err = "IGDBAuthError" ->
            {"Authentication failed"} \cup HTTPErrorText(outcome, TokenRequestUrl)
      [] err = "IGDBRateLimitError" -> {"Rate limit exceeded"}
      [] err \in {"HTTPStatusError", "TransportError"} ->
            HTTPErrorText(outcome, EntityRequestUrl)
      [] err = "KeyError" -> {"access_token"}
      [] OTHER -> {}

\* What the operation writes to the log when it ends: igdb_client.py:68
\* f"Failed to get IGDB access token: {e}", 107 f"IGDB API request failed:
\* {e}", 147, 158, 169 f"Failed to ...: {e}"; 64 and 143 on success.
LogRecords(outcome, err) ==
    CASE err = "IGDBAuthError" ->
            {"Failed to get IGDB access token"} \cup ErrorMessage(outcome, err)
      [] err \in {"HTTPStatusError", "TransportError"} ->
            {"IGDB API request failed"} \cup ErrorMessage(outcome, err)
      [] err = "none" -> {"Successfully"}
      [] OTHER -> {"Failed to"} \cup ErrorMessage(outcome, err)

\* Faulty variant of the end of an operation: a failed entity POST is
\* dispatched a second time.
Finish_RetriesOnce(c, resp, err, value, data) ==
    IF /\ err \in {"IGDBRateLimitError", "HTTPStatusError", "TransportError"}
       /\ task[c].post_calls = 1
    THEN task' = [task EXCEPT ![c] = [task[c] EXCEPT !.post_calls = 2]]
    ELSE task' = [task EXCEPT ![c] =
            [Idle EXCEPT !.pc = "done", !.response = resp, !.raised = err,
                         !.value = value, !.token_data = data,
                         !.message = ErrorMessage(resp, err),
                         !.logged = LogRecords(resp, err)]]

\* The operation of task c ends: after response resp it raises err, or
\* returns (err = "none"; value is the token a direct call gets back, data
\* the exchange answer it got it from).  The frame is gone; what is left is
\* what the caller of the operation gets.
Finish(c, resp, err, value, data) ==
    task' = [task EXCEPT ![c] =
        [Idle EXCEPT !.pc = "done", !.response = resp, !.raised = err,
                     !.value = value, !.token_data = data,
                     !.message = ErrorMessage(resp, err),
                     !.logged = LogRecords(resp, err)]]

\* igdb_client.py:86-98: _get_access_token returns tok; _make_request puts it
\* in the Authorization header and dispatches the POST.  A direct caller of
\* _get_access_token (server.py:43, 323) just gets the token.  t is the frame
\* of task c so far.
UseToken(c, t, tok) ==
    IF t.op = "token"
    THEN /\ Finish(c, "none", "none", tok, t.token_data)
         /\ UNCHANGED last_post_time
    ELSE /\ task' = [task EXCEPT ![c] =
                [t EXCEPT !.pc = "post_wait", !.bearer = tok,
                          !.post_calls = @ + 1,
                          !.endpoint = Endpoint(t.op),
                          !.steps = Append(@, "post")]]
         /\ last_post_time' = now

\* igdb_client.py:40-56: _get_access_token up to its return of the cached
\* token, or up to the await of the token request.
GetAccessToken(c, t0) ==
    LET t == [t0 EXCEPT !.steps = Append(@, "token")] IN
    IF TokenIsFresh(access_token, token_expires_at, now)
    THEN /\ UseToken(c, t, access_token)
         /\ UNCHANGED <<access_token, token_expires_at, issued>>
    ELSE /\ task' = [task EXCEPT ![c] =
                [t EXCEPT !.pc = "token_wait", !.token_calls = @ + 1]]
         /\ UNCHANGED <<access_token, token_expires_at, issued,
                        last_post_time>>

\* igdb_client.py:80 and 86: the slot is taken, then the token is asked for.
AcquireSlot(c, t) ==
    /\ last_request_time' = now
    /\ slot_owner' = c
    /\ GetAccessToken(c, [t EXCEPT !.steps = Append(@, "slot")])

\* A task calls an operation of the client.  A domain operation enters
\* _make_request and _rate_limit (igdb_client.py:71-86); a direct call enters
\* _get_access_token.
Invoke(c, k) ==
    /\ task[c].pc = "idle"
    /\ started < MaxOps
    /\ started' = started + 1
    /\ LET t == [Idle EXCEPT !.op = k, !.stale_at_invoke =
                    (access_token = None \/ token_expires_at = None
                        \/ token_expires_at <= now),
                    !.steps = IF k \in DomainOps THEN <<"query">> ELSE <<>>]
           current_time == now
           time_since_last_request == current_time - last_request_time
       IN  IF k = "token"
           THEN /\ GetAccessToken(c, t)
                /\ UNCHANGED <<last_request_time, slot_owner>>
           ELSE IF MustSleep(time_since_last_request)
           THEN /\ task' = [task EXCEPT ![c] =
                       [t EXCEPT !.pc = "sleeping", !.wake_at =
                           current_time + SleepTime(time_since_last_request)]]
                /\ UNCHANGED <<last_request_time, slot_owner, access_token,
                               token_expires_at, issued, last_post_time>>
           ELSE AcquireSlot(c, t)
    /\ UNCHANGED <<now, routeVars>>

\* igdb_client.py:78-86: asyncio.sleep returns, no earlier than asked.
Wake(c) ==
    /\ task[c].pc = "sleeping"
    /\ now >= task[c].wake_at
    /\ AcquireSlot(c, task[c])
    /\ UNCHANGED <<now, started, routeVars>>

\* igdb_client.py:57-69: the token endpoint answers task c.
TokenResponse(c, outcome, e) ==
    /\ task[c].pc = "token_wait"
    /\ CASE outcome = "ok" ->
              LET token_data == TokenBody(issued + 1, e)
              IN  /\ issued' = issued + 1
                  /\ access_token' = token_data["access_token"]
                  /\ token_expires_at' = ExpiresAt(now, ExpiresIn(token_data))
                  /\ UseToken(c, [task[c] EXCEPT !.token_data = token_data],
                              token_data["access_token"])
         [] outcome = "bad_expires_in" ->
              \* line 60 has stored the token when line 62 raises
              /\ issued' = issued + 1
              /\ access_token' = issued + 1
              /\ Finish(c, outcome, TokenRaises(outcome), None, NoData)
              /\ UNCHANGED <<token_expires_at, last_post_time>>
         [] OTHER ->
              /\ Finish(c, outcome, TokenRaises(outcome), None, NoData)
              /\ UNCHANGED <<issued, access_token, token_expires_at,
                             last_post_time>>
    /\ UNCHANGED <<now, started, last_request_time, slot_owner, routeVars>>

\* igdb_client.py:98-108: the entity endpoint answers task c.
PostResponse(c, outcome) ==
    /\ task[c].pc = "post_wait"
    /\ Finish(c, outcome, PostRaises(outcome), None, NoData)
    /\ UNCHANGED <<now, started, issued, access_token, token_expires_at,
                   last_request_time, slot_owner, last_post_time, routeVars>>

\* The caller of the operation takes its result.
Return(c) ==
    /\ task[c].pc = "done"
    /\ task' = [task EXCEPT ![c] = Idle]
    /\ UNCHANGED <<now, started, issued, access_token, token_expires_at,
                   last_request_time, slot_owner, last_post_time, routeVars>>

\* The clock advances by a second.
Tick ==
    /\ now < BootTime + MaxTicks
    /\ now' = now + 1
    /\ UNCHANGED <<started, issued, access_token, token_expires_at,
                   last_request_time, task, slot_owner, last_post_time,
                   routeVars>>

Step(c) ==
    \/ \E k \in OpKinds : Invoke(c, k)
    \/ Wake(c)
    \/ \E o \in TokenOutcomes, e \in ExpiresInChoices :
          (o = "ok" \/ e = None) /\ TokenResponse(c, o, e)
    \/ \E o \in PostOutcomes : PostResponse(c, o)
    \/ Return(c)

\* Any number of tasks share the client.
Next == (\E c \in Callers : Step(c)) \/ Tick

Spec == Init /\ [][Next]_vars

\* One task calls the client, one operation after another.
SeqNext == Step(SeqCaller) \/ Tick

SeqSpec == Init /\ [][SeqNext]_vars

\* The clock of a run that goes on: it advances as Tick does, and past the
\* seconds explored as long as a task sleeps whose timer is not yet due.
TickOn ==
    /\ \/ now < BootTime + MaxTicks
       \/ \E c \in Callers : task[c].pc = "sleeping" /\ now < task[c].wake_at
    /\ now' = now + 1
    /\ UNCHANGED <<started, issued, access_token, token_expires_at,
                   last_request_time, task, slot_owner, last_post_time,
                   routeVars>>

LiveNext == (\E c \in Callers : Step(c)) \/ TickOn

\* The event loop runs: time passes, and asyncio.sleep returns once its
\* timer is due.
LiveSpec ==
    /\ Init
    /\ [][LiveNext]_vars
    /\ WF_vars(TickOn)
    /\ \A c \in Callers : WF_vars(Wake(c))

\* --------------------------------------------- the routes, step by step

\* The handler answers its request; the query parameters are of no use
\* any more.
Respond(h, f, status, body) ==
    handler' = [handler EXCEPT ![h] =
        [f EXCEPT !.pc = "responded", !.status = status, !.body = body,
                  !.received = 0, !.days_ahead = 0, !.limit = 0, !.platform_filter = <<>>]]

\* The handler calls the domain operation of the client, which builds its
\* query (igdb_client.py:119-137, 152, 163), and awaits it.
CallUpstream(h, f) ==
    LET query == CASE f.route = "upcoming" ->
                        UpcomingQuery(now, f.days_ahead, f.limit,
                                      f.platform_filter)
                   [] f.route = "search" -> SearchQuery(f.limit)
                   [] OTHER -> PlatformsQuery
    IN  handler' = [handler EXCEPT ![h] =
            [f EXCEPT !.pc = "upstream_wait", !.upstream_calls = @ + 1,
                      !.query = query]]

\* server.py:93-160: GET /api/games/upcoming up to its first suspension.
UpcomingRequest(h, force_refresh, days_ahead, limit, platform_filter) ==
    /\ handler[h].pc = "idle"
    /\ LET f == [NoRequest EXCEPT !.route = "upcoming",
                    !.force_refresh = force_refresh,
                    !.days_ahead = days_ahead, !.limit = limit,
                    !.platform_filter = platform_filter]
           games == get_upcoming_games_from_db(db_games, now, days_ahead,
                                               platform_filter, limit)
       IN  IF force_refresh THEN CallUpstream(h, f)
           ELSE IF games # <<>>
           THEN Respond(h, [f EXCEPT !.items = games], 200,
                        sorted_games(games))
           ELSE CallUpstream(h, f)
    /\ UNCHANGED <<db_games, db_platforms, clientVars>>

\* server.py:184-193: GET /api/games/search up to its first suspension.
SearchRequest(h, limit) ==
    /\ handler[h].pc = "idle"
    /\ CallUpstream(h, [NoRequest EXCEPT !.route = "search", !.limit = limit])
    /\ UNCHANGED <<db_games, db_platforms, clientVars>>

\* server.py:216-248: GET /api/platforms up to its first suspension.
PlatformsRequest(h, force_refresh) ==
    /\ handler[h].pc = "idle"
    /\ LET f == [NoRequest EXCEPT !.route = "platforms",
                    !.force_refresh = force_refresh]
           platforms == get_platforms_from_db(db_platforms)
       IN  IF force_refresh THEN CallUpstream(h, f)
           ELSE IF platforms # <<>>
           THEN Respond(h, [f EXCEPT !.items = platforms], 200, platforms)
           ELSE CallUpstream(h, f)
    /\ UNCHANGED <<db_games, db_platforms, clientVars>>

\* The body of a successful answer: server.py:163-172, 204-208, 262.
Body(route, items) == IF route = "upcoming" THEN sorted_games(items) ELSE items

\* Faulty variant of the return of the domain operation: an error empties
\* the collection the route caches in.
UpstreamReturns_DropsCacheOnError(h, raised, data) ==
    /\ handler[h].pc = "upstream_wait"
    /\ LET f == [handler[h] EXCEPT !.query = <<>>, !.days_ahead = 0,
                                    !.limit = 0, !.platform_filter = <<>>]
           items == IF f.route = "platforms" THEN ParsePlatforms(data)
                    ELSE ParseGames(data)
       IN  IF raised # "none"
           THEN /\ Respond(h, [f EXCEPT !.raised = raised],
                           ErrorStatus(f.route, raised), <<>>)
                /\ db_games' = EmptyCollection
                /\ db_platforms' = EmptyCollection
           ELSE /\ UNCHANGED <<db_games, db_platforms>>
                /\ IF f.route # "search" /\ items # <<>>
                   THEN handler' = [handler EXCEPT ![h] =
                            [f EXCEPT !.pc = "saving", !.items = items,
                                      !.received = Len(data)]]
                   ELSE Respond(h, [f EXCEPT !.items = items], 200,
                                Body(f.route, items))
    /\ UNCHANGED clientVars

\* server.py:115-132, 144-160, 193-214, 227-240, 248-266: the domain
\* operation returns data or raises; what parses is kept; the handler starts
\* to save it (games and platforms routes) or answers.  The query and the
\* query parameters are of no use any more.
UpstreamReturns(h, raised, data) ==
    /\ handler[h].pc = "upstream_wait"
    /\ LET f == [handler[h] EXCEPT !.query = <<>>, !.days_ahead = 0,
                                    !.limit = 0, !.platform_filter = <<>>]
           items == IF f.route = "platforms" THEN ParsePlatforms(data)
                    ELSE ParseGames(data)
       IN  IF raised # "none"
           THEN Respond(h, [f EXCEPT !.raised = raised],
                        ErrorStatus(f.route, raised), <<>>)
           ELSE IF f.route # "search" /\ items # <<>>
           THEN handler' = [handler EXCEPT ![h] =
                    [f EXCEPT !.pc = "saving", !.items = items,
                              !.received = Len(data)]]
           ELSE Respond(h, [f EXCEPT !.items = items], 200,
                        Body(f.route, items))
    /\ UNCHANGED <<db_games, db_platforms, clientVars>>

\* database.py:65-83, 134-147: one replace_one of save_games or
\* save_platforms reaches the store; after the last one the handler answers.
SaveOne(h) ==
    /\ handler[h].pc = "saving"
    /\ LET f == handler[h]
           item == f.items[f.saved + 1]
           g == [f EXCEPT !.saved = @ + 1]
       IN  /\ IF f.route = "platforms"
              THEN /\ db_platforms' = replace_one(db_platforms, item.id,
                                                  PlatformDoc(item, now))
                   /\ UNCHANGED db_games
              ELSE /\ db_games' = replace_one(db_games, item.id,
                                              GameDoc(item, now))
                   /\ UNCHANGED db_platforms
           /\ IF g.saved = Len(f.items)
              THEN Respond(h, g, 200, Body(f.route, f.items))
              ELSE handler' = [handler EXCEPT ![h] = g]
    /\ UNCHANGED clientVars

\* The answer is sent; the handler is free for the next request.
Close(h) ==
    /\ handler[h].pc = "responded"
    /\ handler' = [handler EXCEPT ![h] = NoRequest]
    /\ UNCHANGED <<db_games, db_platforms, clientVars>>

RouteStep(h) ==
    \/ \E force_refresh \in BOOLEAN, days_ahead \in DaysAheadChoices,
          limit \in LimitChoices, platform_filter \in PlatformFilters :
          UpcomingRequest(h, force_refresh, days_ahead, limit, platform_filter)
    \/ \E limit \in LimitChoices : SearchRequest(h, limit)
    \/ \E force_refresh \in BOOLEAN : PlatformsRequest(h, force_refresh)
    \/ \E raised \in ClientRaises, data \in GameBatches :
          /\ handler[h].route # "platforms"
          /\ raised = "none" \/ data = <<>>
          /\ UpstreamReturns(h, raised, data)
    \/ \E raised \in ClientRaises, data \in PlatformBatches :
          /\ handler[h].route = "platforms"
          /\ raised = "none" \/ data = <<>>
          /\ UpstreamReturns(h, raised, data)
    \/ SaveOne(h)
    \/ Close(h)

\* The handlers of the route layer over the one store; the client is seen
\* through what its operations return or raise.
RouteNext == \E h \in Handlers : RouteStep(h)

RouteSpec == Init /\ [][RouteNext]_vars

\* One handler serves one request after another.
SoloHandler == "h1"

SoloRouteNext == RouteStep(SoloHandler)

SoloRouteSpec == Init /\ [][SoloRouteNext]_vars

\* ------------------------------------------------ steps the claims speak of

\* Task c takes a rate-limiter slot in this step (_rate_limit returns).
SlotTaken(c) ==
    \/ task[c].pc = "sleeping" /\ task'[c].pc # "sleeping"
    \/ /\ task[c].pc = "idle"
       /\ task'[c].pc \in {"token_wait", "post_wait"}
       /\ task'[c].op \in DomainOps

\* Task c runs the test of _get_access_token in this step.
TokenAsked(c) ==
    /\ task[c].pc \in {"idle", "sleeping"}
    /\ task'[c].pc \in {"token_wait", "post_wait", "done"}

\* Task c dispatches its entity POST in this step.
PostDispatched(c) == task[c].pc # "post_wait" /\ task'[c].pc = "post_wait"

\* The credential exchange of task c succeeds in this step.
ExchangeSucceeded(c) ==
    /\ task[c].pc = "token_wait"
    /\ task'[c].token_data # NoData

\* ---------------------------------------------------------------- C1
\* C1: any two slot acquisitions (returns from _rate_limit) by different
\* callers sharing the client are at least request_interval apart.  Stated
\* of consecutive acquisitions: the task that took the slot before is
\* slot_owner, and it took it at last_request_time.
C1_SlotsOfDifferentCallersApart ==
    [][\A c \in Callers :
          (SlotTaken(c) /\ slot_owner \notin {c, Nobody})
              => now' - last_request_time >= request_interval]_vars

\* ---------------------------------------------------------------- C2
\* C2: the starts of consecutive outbound entity POSTs are at least
\* request_interval apart, also for one caller running its operations one
\* after another and also when a token exchange sits between the slot and
\* the POST.
C2_PostStartsApart ==
    [][\A c \in Callers :
          (PostDispatched(c) /\ last_post_time # None)
              => now' - last_post_time >= request_interval]_vars

\* ---------------------------------------------------------------- C3
\* C3: for calls made one after another, whatever their types, the
\* last_request_time a call records is at least request_interval later than
\* the one the call before it recorded (one clock for all endpoints).
C3_SequentialSlotsApart ==
    [][\A c \in Callers :
          SlotTaken(c)
              => /\ last_request_time' = now'
                 /\ last_request_time' - last_request_time >= request_interval]_vars

\* A call of one type slept behind a call of another type and then recorded
\* its slot at the due time.
C3_Witness ==
    /\ task[SeqCaller].pc = "post_wait"
    /\ task[SeqCaller].op = "get_platforms"
    /\ task[SeqCaller].wake_at = BootTime + request_interval
    /\ last_request_time = task[SeqCaller].wake_at
    /\ started >= 2

\* ---------------------------------------------------------------- C4
\* C4: a token is never put in the Authorization header of an entity request
\* at a time now >= its cached expires_at, a token just obtained by an
\* exchange included.
C4_BearerNotExpired ==
    [][\A c \in Callers :
          PostDispatched(c)
              => /\ task'[c].bearer = access_token'
                 /\ now' < token_expires_at']_vars

\* ---------------------------------------------------------------- C5
\* C5: after a successful exchange whose answer has expires_in <= 300, the
\* stored expires_at is strictly greater than the time of the exchange.
C5_ShortLifetimeClamped ==
    [][\A c \in Callers :
          (/\ ExchangeSucceeded(c)
           /\ "expires_in" \in DOMAIN task'[c].token_data
           /\ task'[c].token_data["expires_in"] <= 300)
              => token_expires_at' > now']_vars

\* ---------------------------------------------------------------- C6
\* C6: when _get_access_token is called with a cached token and
\* now < expires_at, it returns that token, sends nothing to the token
\* endpoint and leaves the cached token and expiry as they were.
C6_HotPathNoRefetch ==
    [][\A c \in Callers :
          (/\ TokenAsked(c)
           /\ access_token # None
           /\ token_expires_at # None
           /\ now < token_expires_at)
              => /\ task'[c].pc # "token_wait"
                 /\ task'[c].token_calls = 0
                 /\ access_token' = access_token
                 /\ token_expires_at' = token_expires_at
                 /\ IF task'[c].pc = "done"
                    THEN task'[c].value = access_token
                    ELSE task'[c].bearer = access_token]_vars

\* A domain operation invoked with a valid cached token has dispatched its
\* POST with it, without an exchange.
C6_Witness ==
    \E c \in Callers :
        /\ task[c].pc = "post_wait"
        /\ ~task[c].stale_at_invoke
        /\ task[c].token_calls = 0
        /\ task[c].bearer = access_token
        /\ access_token # None
        /\ now < token_expires_at

C8_ExpiresAtFormula ==
    [][\A c \in Callers :
          ExchangeSucceeded(c)
              => LET data == task'[c].token_data
                     e == IF "expires_in" \in DOMAIN data
                          THEN data["expires_in"] ELSE 3600
                 IN  /\ token_expires_at' = now' + e - 300
                     /\ e = 3600 => token_expires_at' = now' + 3300]_vars

\* An answer without expires_in has just been stored with the default.
C8_Witness ==
    \E c \in Callers :
        /\ task[c].pc = "post_wait"
        /\ task[c].token_data # NoData
        /\ "expires_in" \notin DOMAIN task[c].token_data
        /\ access_token = task[c].token_data["access_token"]
        /\ token_expires_at = now + 3300
        /\ last_post_time = now

\* ---------------------------------------------------------------- C9
\* C9: on the upcoming-games route without force_refresh the upstream client
\* is called only when the cache holds no game for the requested shape: a
\* request that finds a matching game is answered from the cache.
C9_UpstreamOnlyOnCacheMiss ==
    [][\A h \in Handlers :
          (/\ handler[h].pc = "idle"
           /\ handler'[h].route = "upcoming"
           /\ ~handler'[h].force_refresh
           /\ handler'[h].pc = "upstream_wait")
              => ~\E i \in DOMAIN db_games :
                    MatchesFilter(db_games[i], now, handler'[h].days_ahead,
                                  handler'[h].platform_filter)]_vars

\* --------------------------------------------------------------- C10
\* C10: a force-refresh request (upcoming games or platforms) always calls
\* the upstream client, whatever the cache holds; after a successful call
\* each parsed entity is written under its id with the fetched value, in
\* place of any earlier value, and all of them are written before the
\* request is answered.
C10_ForceRefreshOverwrites ==
    /\ [][\A h \in Handlers :
            (/\ handler[h].pc = "idle"
             /\ handler'[h].pc # "idle"
             /\ handler'[h].force_refresh)
                => /\ handler'[h].pc = "upstream_wait"
                   /\ handler'[h].upstream_calls = 1]_vars
    /\ [][\A h \in Handlers :
            (/\ handler[h].pc = "saving"
             /\ handler[h].force_refresh
             /\ handler'[h].saved = handler[h].saved + 1)
                => LET e == handler[h].items[handler'[h].saved]
                   IN  IF handler[h].route = "platforms"
                       THEN /\ e.id \in DOMAIN db_platforms'
                            /\ db_platforms'[e.id].name = e.name
                       ELSE /\ e.id \in DOMAIN db_games'
                            /\ db_games'[e.id].name = e.name
                            /\ db_games'[e.id].first_release_date
                                  = e.first_release_date
                            /\ db_games'[e.id].platforms = e.platforms]_vars
    /\ [](\A h \in Handlers :
            (/\ handler[h].pc = "responded"
             /\ handler[h].force_refresh
             /\ handler[h].status = 200)
                => /\ handler[h].upstream_calls = 1
                   /\ handler[h].saved = Len(handler[h].items))

\* A force refresh has written game 1 as "Beta" over the "Alpha" another
\* request had stored.
C10_Witness ==
    \E h, g \in Handlers :
        /\ h # g
        /\ handler[g].pc = "responded" /\ handler[g].status = 200
        /\ handler[g].saved = 1
        /\ handler[g].items[1].id = 1 /\ handler[g].items[1].name = "Alpha"
        /\ handler[h].pc = "responded" /\ handler[h].status = 200
        /\ handler[h].force_refresh /\ handler[h].route = "upcoming"
        /\ handler[h].saved = 1
        /\ handler[h].items[1].id = 1 /\ handler[h].items[1].name = "Beta"
        /\ 1 \in DOMAIN db_games /\ db_games[1].name = "Beta"

\* --------------------------------------------------------------- C11
\* C11: a 429 answer to an entity query makes the domain operation raise
\* IGDBRateLimitError, not the generic HTTP or transport error and not the
\* auth error; the operation raises, so it returns no payload.
C11_429RaisesRateLimitError ==
    \A c \in Callers :
        (task[c].pc = "done" /\ task[c].response = "429")
            => /\ task[c].raised = "IGDBRateLimitError"
               /\ task[c].raised \notin {"none", "HTTPStatusError",
                                         "TransportError", "IGDBAuthError"}
               /\ task[c].value = None

\* An entity POST of a domain operation has been answered with 429.
C11_Witness ==
    \E c \in Callers :
        /\ task[c].pc = "done"
        /\ task[c].response = "429"
        /\ task[c].raised = "IGDBRateLimitError"

\* --------------------------------------------------------------- C12
\* C12: when the credential exchange ends in a transport failure or a
\* non-2xx answer, _get_access_token raises IGDBAuthError and the cached
\* token and the cached expiry are what they were before the call.
C12_FailedExchangeKeepsCache ==
    [][\A c \in Callers :
          (/\ task[c].pc = "token_wait"
           /\ task'[c].pc = "done"
           /\ task'[c].response \in {"status_error", "transport_error"})
              => /\ task'[c].raised = "IGDBAuthError"
                 /\ access_token' = access_token
                 /\ token_expires_at' = token_expires_at]_vars

\* An exchange has failed while an older token was cached; the older token
\* and its expiry are still there.
C12_Witness ==
    \E c \in Callers :
        /\ task[c].pc = "done"
        /\ task[c].response \in {"status_error", "transport_error"}
        /\ task[c].raised = "IGDBAuthError"
        /\ access_token # None
        /\ token_expires_at # None

\* --------------------------------------------------------------- C13
\* A token sequence occurs in another.
Contains(seq, sub) ==
    \E i \in 1..(Len(seq) - Len(sub) + 1) :
        SubSeq(seq, i, i + Len(sub) - 1) = sub

\* The where clauses of a query.
WhereClauses(query) ==
    SelectSeq(Statements(query),
              LAMBDA st : st # <<>> /\ st[1] = Word("where"))

\* C13: for get_upcoming_games with a non-empty platform_ids list the
\* query has one where clause, which holds the date window
\* [now, now + days_ahead) and, AND-ed to it in the same clause, the
\* disjunction over exactly the given platform ids.
C13_PlatformsInsideWhereClause ==
    \A h \in Handlers :
        (/\ handler[h].pc = "upstream_wait"
         /\ handler[h].route = "upcoming"
         /\ handler[h].platform_filter # <<>>)
            => LET ids == handler[h].platform_filter
                   w == WhereClauses(handler[h].query)
                   window ==
                       <<Word("release_dates.date"), Word(">="), Num(now),
                         Word("&"), Word("release_dates.date"), Word("<"),
                         Num(now + handler[h].days_ahead * Day)>>
                   disjunction ==
                       <<Word("&"), Word("release_dates.platform"),
                         Word("="), Word("(")>>
                       \o Join([i \in 1..Len(ids) |-> <<Num(ids[i])>>],
                               <<Word("|")>>)
                       \o <<Word(")")>>
               IN  /\ Len(w) = 1
                   /\ Contains(w[1], window)
                   /\ Contains(w[1], disjunction)

\* --------------------------------------------------------------- C14
\* items are the objects of data that have what an entity needs (models.py:
\* id and name), all of them, in the order they have in data.
ParsedInOrder(data, items) ==
    LET n == Len(data)
        keep == { i \in 1..n : {"id", "name"} \subseteq DOMAIN data[i] }
        k == n - Cardinality(keep)
    IN  /\ Len(items) = n - k
        /\ \E f \in [1..Len(items) -> keep] :
              /\ \A i, j \in 1..Len(items) : i < j => f[i] < f[j]
              /\ \A i \in 1..Len(items) :
                    /\ items[i].id = data[f[i]]["id"]
                    /\ items[i].name = data[f[i]]["name"]

\* Whatever batch the client returns, the handler keeps the n - k objects
\* that parse, in order, and raises nothing.
ParseStepKeepsSurvivors ==
    \A h \in Handlers :
        (handler[h].pc = "upstream_wait" /\ handler'[h].pc # "upstream_wait")
            => \A data \in (IF handler[h].route = "platforms"
                            THEN PlatformBatches ELSE GameBatches) :
                  UpstreamReturns(h, "none", data)
                      => /\ ParsedInOrder(data, handler'[h].items)
                         /\ handler'[h].raised = "none"
                         /\ handler'[h].pc = "responded"
                               => handler'[h].status = 200

\* body holds the entities of items, each once, by ascending
\* (first_release_date, name).
SortedPermutation(body, items) ==
    /\ Len(body) = Len(items)
    /\ \E p \in [1..Len(items) -> 1..Len(items)] :
          /\ \A i, j \in 1..Len(items) : i # j => p[i] # p[j]
          /\ \A i \in 1..Len(items) : body[i] = items[p[i]]
    /\ \A i, j \in 1..Len(body) : i < j => SortKeyLE(body[i], body[j])

\* C14 as stated: for a successful batch of n objects of which k do not
\* parse, every route keeps the n - k that parse and answers with exactly
\* these, in their original relative order, and raises no error.
C14_RoutesYieldSurvivorsInOrder ==
    /\ [][ParseStepKeepsSurvivors]_vars
    /\ [](\A h \in Handlers :
            (handler[h].pc = "responded" /\ handler[h].status = 200)
                => handler[h].body = handler[h].items)

\* C14, amended: as above, but the upcoming-games route answers with the
\* n - k entities ordered by (first_release_date, name); the search and
\* platforms routes answer with them in their original relative order.
C14_RoutesYieldSurvivors ==
    /\ [][ParseStepKeepsSurvivors]_vars
    /\ [](\A h \in Handlers :
            (handler[h].pc = "responded" /\ handler[h].status = 200)
                => IF handler[h].route = "upcoming"
                   THEN SortedPermutation(handler[h].body, handler[h].items)
                   ELSE handler[h].body = handler[h].items)

\* A batch of two objects, one of which did not parse, has left one entity.
C14_Witness ==
    \E h \in Handlers :
        /\ handler[h].pc = "saving"
        /\ handler[h].received = 2
        /\ Len(handler[h].items) = 1

\* --------------------------------------------------------------- C15
\* C15: the client never retries.  One invocation of an operation
\* dispatches at most one entity POST and at most one token request:
\* a request is dispatched only by a frame that has dispatched none of its
\* kind, and whatever answer comes (200, 429, another status, a transport
\* failure, a failed exchange), an answered POST or a failed exchange ends
\* the operation.
C15_NoRetry ==
    /\ [][\A c \in Callers :
            /\ task'[c].token_calls > task[c].token_calls
                  => task[c].token_calls = 0 /\ task'[c].token_calls = 1
            /\ task'[c].post_calls > task[c].post_calls
                  => task[c].post_calls = 0 /\ task'[c].post_calls = 1
            /\ task[c].pc = "post_wait"
                  => task'[c].pc \in {"post_wait", "done"}
            /\ task[c].pc = "token_wait"
                  => \/ task'[c].pc = "token_wait"
                     \/ task'[c].pc = "done"
                     \/ task'[c].pc = "post_wait" /\ task'[c].bearer # None
            /\ task[c].pc = "done" => task'[c].pc \in {"done", "idle"}]_vars
    /\ [](\A c \in Callers :
            task[c].token_calls <= 1 /\ task[c].post_calls <= 1)

\* Two operations have failed, one at its entity POST and one at the
\* exchange.
C15_Witness ==
    \E c, d \in Callers :
        /\ task[c].pc = "done"
        /\ task[c].response \in {"429", "500", "transport_error"}
        /\ task[c].raised # "none"
        /\ task[d].pc = "done"
        /\ task[d].response = "status_error"
        /\ task[d].raised = "IGDBAuthError"

\* --------------------------------------------------------------- C16
\* C16: every route that reaches the client (upcoming games, search,
\* platforms) answers a rate-limit error of the client with HTTP 429.
C16_RateLimitAnswered429 ==
    \A h \in Handlers :
        (/\ handler[h].pc = "responded"
         /\ handler[h].route \in Routes
         /\ handler[h].raised = "IGDBRateLimitError")
            => handler[h].status = 429

\* --------------------------------------------------------------- C17
\* C17: every route that reaches the client (upcoming games, search,
\* platforms) answers an auth error of the client with HTTP 503.
C17_AuthErrorAnswered503 ==
    \A h \in Handlers :
        (/\ handler[h].pc = "responded"
         /\ handler[h].route \in Routes
         /\ handler[h].raised = "IGDBAuthError")
            => handler[h].status = 503

\* --------------------------------------------------------------- C18
\* C18: no operation of the client writes the client_id or the
\* client_secret into a log record or into the message of an error it
\* raises, a failed credential exchange included.
C18_CredentialsNotWritten ==
    \A c \in Callers :
        {"client_id", "client_secret"}
            \cap (task[c].message \cup task[c].logged) = {}

\* --------------------------------------------------------------- C19
\* Task c dispatches an outbound request (token request or entity POST) in
\* this step.
RequestDispatched(c) ==
    \/ task'[c].token_calls > task[c].token_calls
    \/ task'[c].post_calls > task[c].post_calls

\* C19: every outbound request of the client, token requests included, is
\* preceded by a slot acquisition that sets last_request_time: no caller
\* (domain operation, startup check, health check) dispatches a request
\* without first passing through _rate_limit.  Stated in its weakest
\* reading: the operation that dispatches a request has taken a slot since
\* it was called.
C19_EveryRequestTakesSlot ==
    [][\A c \in Callers :
          RequestDispatched(c)
              => \E i \in 1..Len(task'[c].steps) :
                    task'[c].steps[i] = "slot"]_vars

\* --------------------------------------------------------------- C20
\* The endpoint the operation is to post to.
EndpointOf(op) ==
    CASE op = "get_upcoming_games" -> "games"
      [] op = "search_games" -> "games"
      [] op = "get_platforms" -> "platforms"

\* C20: a domain operation does its steps in this order: build the query,
\* take the slot, obtain the token, dispatch one POST to its endpoint with
\* that token as bearer, classify the answer; the slot is taken before the
\* token is obtained.
C20_StepsInOrder ==
    /\ [](\A c \in Callers :
            task[c].op \in DomainOps
                => /\ task[c].pc = "sleeping" => task[c].steps = <<"query">>
                   /\ task[c].pc = "token_wait"
                         => task[c].steps = <<"query", "slot", "token">>
                   /\ task[c].pc = "post_wait"
                         => /\ task[c].steps
                                  = <<"query", "slot", "token", "post">>
                            /\ task[c].post_calls = 1
                            /\ task[c].endpoint = EndpointOf(task[c].op)
                            /\ task[c].bearer # None)
    /\ [][\A c \in Callers :
            /\ PostDispatched(c) => task'[c].bearer = access_token'
            /\ (task[c].pc = "post_wait" /\ task'[c].pc = "done")
                  => (task'[c].raised = "none") = (task'[c].response = "200")
         ]_vars

\* get_platforms has waited for its slot, exchanged the credentials and
\* posted to the platforms endpoint.
C20_Witness ==
    \E c \in Callers :
        /\ task[c].pc = "post_wait"
        /\ task[c].op = "get_platforms"
        /\ task[c].endpoint = "platforms"
        /\ task[c].token_calls = 1
        /\ task[c].bearer = access_token
        /\ last_request_time > BootTime

\* --------------------------------------------------------------- C21
\* C21: when callers race on an expired token and each performs a
\* credential exchange, the cached token and the cached expiry always come
\* from one and the same exchange answer, and later calls use that pair.
\* Stated for the step in which the exchange of c is answered while the
\* operation of d, which exchanged too, is still under way: the step leaves
\* the cached pair alone or stores the token and the expiry of the answer
\* to c, and an entity POST carries the cached token.
C21_RacingExchangesKeepPairWhole ==
    [][\A c, d \in Callers :
          (/\ c # d
           /\ task[c].pc = "token_wait"
           /\ task'[c].pc # "token_wait"
           /\ task[d].pc = "post_wait"
           /\ task[d].token_calls = 1)
              => /\ \/ UNCHANGED <<access_token, token_expires_at>>
                    \/ /\ task'[c].token_data # NoData
                       /\ access_token' = task'[c].token_data["access_token"]
                       /\ token_expires_at'
                             = ExpiresAt(now, ExpiresIn(task'[c].token_data))
                 /\ PostDispatched(c) => task'[c].bearer = access_token'
      ]_vars

\* --------------------------------------------------------------- C22
\* C22: when the upstream call of a route (force refresh or cache miss,
\* games or platforms) fails with any error, the route writes nothing to
\* the cache.  The step in which the error reaches the handler answers the
\* request and leaves both collections as they are; a handler whose call
\* failed has saved nothing; and every write to a collection is a save of
\* a handler whose call succeeded.
C22_FailedUpstreamWritesNothing ==
    /\ [][\A h \in Handlers :
            (handler[h].pc = "upstream_wait" /\ handler'[h].raised # "none")
                => /\ UNCHANGED <<db_games, db_platforms>>
                   /\ handler'[h].pc = "responded"
                   /\ handler'[h].status >= 400
                   /\ handler'[h].saved = 0]_vars
    /\ [][(db_games' # db_games \/ db_platforms' # db_platforms)
            => \E h \in Handlers :
                  /\ handler[h].pc = "saving"
                  /\ handler[h].raised = "none"
                  /\ handler'[h].saved = handler[h].saved + 1]_vars
    /\ [](\A h \in Handlers :
            handler[h].raised # "none"
                => handler[h].saved = 0 /\ handler[h].pc = "responded")

\* The upstream call of a games or platforms request has failed while both
\* collections held documents, and they still hold them.
C22_Witness ==
    \E h \in Handlers :
        /\ handler[h].pc = "responded"
        /\ handler[h].route \in {"upcoming", "platforms"}
        /\ handler[h].raised # "none"
        /\ handler[h].upstream_calls = 1
        /\ db_games # EmptyCollection
        /\ db_platforms # EmptyCollection

\* --------------------------------------------------------------- C23
\* C23: when the token acquisition fails inside a domain operation, the
\* operation raises IGDBAuthError and dispatches no entity POST, and the
\* slot it took beforehand stays consumed: last_request_time is not set
\* back.
C23_TokenFailureRaisesAuthError ==
    [][\A c \in Callers :
          (/\ task[c].pc = "token_wait"
           /\ task[c].op \in DomainOps
           /\ task'[c].pc = "done")
              => /\ task'[c].raised = "IGDBAuthError"
                 /\ task[c].post_calls = 0
                 /\ last_post_time' = last_post_time
                 /\ last_request_time' = last_request_time
                 /\ \E i \in 1..Len(task[c].steps) : task[c].steps[i] = "slot"
      ]_vars

\* --------------------------------------------------------------- C24
\* C24: every call to _rate_limit terminates.  With a clock that does not
\* go back it asks for a sleep of at most request_interval, and for none
\* on the first call of a fresh client (last_request_time = 0); a task
\* that sleeps in _rate_limit leaves it, other tasks taking slots
\* meanwhile or not, and on leaving sets last_request_time.
C24_RateLimitTerminates ==
    /\ [][\A c \in Callers :
            /\ (task[c].pc = "idle" /\ task'[c].pc = "sleeping")
                  => /\ task'[c].wake_at > now
                     /\ task'[c].wake_at <= now + request_interval
                     /\ last_request_time # 0
            /\ (task[c].pc = "sleeping" /\ task'[c].pc # "sleeping")
                  => /\ now >= task[c].wake_at
                     /\ last_request_time' = now
                     /\ slot_owner' = c
            /\ (/\ task[c].pc = "idle"
                /\ task'[c].op \in DomainOps
                /\ task'[c].pc # "sleeping")
                  => last_request_time' = now /\ slot_owner' = c]_vars
    /\ \A c \in Callers :
          (task[c].pc = "sleeping") ~> (task[c].pc # "sleeping")

\* Both tasks sleep in _rate_limit at once.
C24_Witness ==
    /\ \A c \in Callers : task[c].pc = "sleeping"
    /\ \E c \in Callers : task[c].wake_at = now + request_interval

====
